---- MODULE Spec2Model ----
(***************************************************************************)
(* Model of the ESP32 SPI host transport, esp_spi.c: the transport context *)
(* (spi_context), the handshake interrupt handler, the upward read/write   *)
(* operations, the work item that runs one duplex SPI exchange, and the    *)
(* init / exit life cycle.                                                 *)
(*                                                                         *)
(* Kernel services are modelled by their documented behaviour:             *)
(*  - sk_buff queues are FIFO lists whose operations are atomic (each      *)
(*    takes the queue's spinlock);                                         *)
(*  - queue_work() queues a work item only if it is not queued already;    *)
(*    the item stops being "pending" when a worker starts to run it, and   *)
(*    the same item never runs on two workers at once;                     *)
(*  - destroy_workqueue() first refuses new work, then waits for queued    *)
(*    and running work to end, then frees the workqueue.                   *)
(***************************************************************************)
EXTENDS Integers, Sequences, FiniteSets

\* ---------------------------------------------------------------- bounds
MaxSubmit == 2      \* buffers write_packet queues in one run
MaxEdges  == 3      \* handshake edges in one run
MaxLife   == 2      \* init and deinit calls in one run
NumCpus   == 2      \* worker threads that can serve the workqueue

\* ------------------------------------------------------ program constants
SPI_BUF_SIZE == 1600   \* esp_spi.h
HeaderSize   == 4      \* sizeof(struct esp_payload_header)
PadUnit      == 4      \* "size += 4 - (size & 3)"
U16Mod       == 65536  \* u16 len, u16 offset

Cpus == 1..NumCpus

\* sizes a caller of write_packet passes in the transport specification
SubmitSizes == {0, 3}
\* header fields the peer returns in the transport specification
PeerOffsets == {HeaderSize, 6}
PeerLens    == {5}

\* ------------------------------------------------------------ buffer bytes
\* A buffer's bytes are a sequence of values 0..255.  For a receive buffer
\* the sequence holds the leading bytes; the bytes after them, up to the
\* buffer's length, are zero.
ByteAt(data, i) == IF i <= Len(data) THEN data[i] ELSE 0

\* The value memcpy obtains for a byte it reads from the memory behind the
\* source buffer: not a value the caller supplied.
Beyond == 256

\* memcpy(dst, src, n) from a source buffer that holds the bytes mem.
memcpy(mem, n) == [i \in 1..n |-> IF i <= Len(mem) THEN mem[i] ELSE Beyond]

\* A 16-bit field read with its bytes in the wrong order.
Le16_BigEndian(data, i) == 256 * ByteAt(data, i) + ByteAt(data, i + 1)

\* le16_to_cpu() of the 16-bit field at byte i.
Le16(data, i) == ByteAt(data, i) + 256 * ByteAt(data, i + 1)

\* The two bytes that carry a 16-bit value on the wire.
Le16Bytes(x) == <<x % 256, (x \div 256) % 256>>

\* The first n bytes of a buffer.
Prefix(data, n) == IF Len(data) > n THEN SubSeq(data, 1, n) ELSE data

\* The bytes a caller of write_packet passes for a size in the transport
\* specification: 1, 2, 3, ...
CallerBytes(size) == [i \in 1..size |-> i % 256]

\* The bytes the peer puts on the wire for a header: the two fields, then a
\* payload 0xAA, 0xAB, ... of the declared length.
PeerPayload(hlen) == [i \in 1..hlen |-> (169 + i) % 256]
PeerWire(offset, hlen) == Le16Bytes(offset) \o Le16Bytes(hlen) \o PeerPayload(hlen)

NoTx == [id |-> 0, size |-> 0, len |-> 0, data |-> <<>>]
NoRx == [id |-> 0, offset |-> 0, hlen |-> 0, len |-> 0, data |-> <<>>]
IdleWorker == [pc |-> "idle", tx_skb |-> NoTx, rx_skb |-> NoRx, trans_len |-> 0, ret |-> 0]

VARIABLES
  spi_workqueue,  \* spi_context.spi_workqueue: "null", "live", "draining", "destroyed"
  esp_spi_dev,    \* spi_context.esp_spi_dev: "null", "live", "freed"
  ctx_adapter,    \* spi_context.adapter is non-NULL
  if_context,     \* adapter->if_context is non-NULL
  q_init,         \* the two sk_buff_heads are initialised lists
  tx_q,           \* spi_context.tx_q
  rx_q,           \* spi_context.rx_q
  work_pending,   \* queued instances of spi_context.spi_work
  worker,         \* per worker thread: position in esp_spi_work and its locals
  irq,            \* spi_interrupt_handler is registered on SPI_IRQ
  gpio,           \* HANDSHAKE_PIN is held
  pc,             \* position of the life-cycle caller (init / exit)
  exit_to,        \* who called spi_exit: "init" (a failed step) or "deinit"
  init_ret,       \* value the last esp_init_interface_layer returned
  fault,          \* "none", or the kernel fault that ended the run
  handed,         \* ids of the frames handed to spi_sync_transfer, in order
  delivered,      \* the buffers read_packet has returned, in order
  nxfer,          \* calls of spi_sync_transfer that have returned
  discarded,      \* ids of the frames memset removed from tx_q
  nwork,          \* activations of esp_spi_work started so far
  nsubmit,        \* buffers write_packet has queued so far
  nedges, nlife   \* handshake edges and init / deinit calls so far

vars == <<spi_workqueue, esp_spi_dev, ctx_adapter, if_context, q_init, tx_q, rx_q,
          work_pending, worker, irq, gpio, pc, exit_to, init_ret, fault,
          handed, delivered, nxfer, discarded, nwork, nsubmit, nedges, nlife>>

\* ------------------------------------------------------------------ Init
Init ==
  /\ spi_workqueue = "null"
  /\ esp_spi_dev = "null"
  /\ ctx_adapter = FALSE
  /\ if_context = FALSE
  /\ q_init = FALSE
  /\ tx_q = <<>>
  /\ rx_q = <<>>
  /\ work_pending = 0
  /\ worker = [c \in Cpus |-> IdleWorker]
  /\ irq = FALSE
  /\ gpio = FALSE
  /\ pc = "uninit"
  /\ exit_to = "none"
  /\ init_ret = "none"
  /\ fault = "none"
  /\ handed = <<>>
  /\ delivered = <<>>
  /\ nxfer = 0
  /\ discarded = {}
  /\ nwork = 0
  /\ nsubmit = 0
  /\ nedges = 0
  /\ nlife = 0

\* ------------------------------------------------------------ sk_buff queues
\* A list insertion at the wrong end (skb_queue_head).
skb_queue_tail_AtHead(q, skb) == <<skb>> \o q

\* skb_queue_tail(): the buffer goes to the end of the list.
skb_queue_tail(q, skb) == Append(q, skb)

\* A dequeue that unlinks the head and hands back nothing.
skb_dequeue_skb_None(q, none) == none

\* skb_dequeue(): the head of the list, or nothing when the list is empty.  A
\* list head that memset zeroed (next = NULL) reads as empty.
skb_dequeue_skb(q, none) == IF q = <<>> THEN none ELSE Head(q)
\* A dequeue that empties the list.
skb_dequeue_rest_All(q) == <<>>

\* A peek instead of a dequeue: the buffer stays on the list.
skb_dequeue_rest_Peek(q) == q

skb_dequeue_rest(q) == IF q = <<>> THEN q ELSE Tail(q)

\* skb_trim(): shortens the buffer to len bytes if it is longer.
skb_trim(skb, len) ==
  IF skb.len > len THEN [skb EXCEPT !.len = len, !.data = Prefix(skb.data, len)]
  ELSE skb

\* -------------------------------------------------------- interrupt handler
\* A queue_work() that queues one more instance per call.
queue_work_PerEdge(n) == n + 1

\* queue_work(): queues the item unless it is queued already.
queue_work(n) == IF n = 0 THEN 1 ELSE n

\* What queue_work() on a workqueue that destroy_workqueue() already freed can
\* do: nothing visible, queue the item on a still existing worker pool, or fault.
UbQueueOutcomes == {"ignored", "queued", "oops"}

spi_interrupt_handler(ub) ==
  /\ fault = "none"
  /\ irq
  /\ nedges < MaxEdges
  /\ nedges' = nedges + 1
  /\ CASE spi_workqueue = "null" ->
            UNCHANGED <<work_pending, fault>>
       [] spi_workqueue = "live" ->
            /\ work_pending' = queue_work(work_pending)
            /\ UNCHANGED fault
       [] spi_workqueue = "draining" ->
            UNCHANGED <<work_pending, fault>>
       [] spi_workqueue = "destroyed" ->
            CASE ub = "ignored" -> UNCHANGED <<work_pending, fault>>
              [] ub = "queued"  -> /\ work_pending' = queue_work(work_pending)
                                   /\ UNCHANGED fault
              [] ub = "oops"    -> /\ fault' = "oops_queue_work"
                                   /\ UNCHANGED work_pending
  /\ UNCHANGED <<spi_workqueue, esp_spi_dev, ctx_adapter, if_context, q_init, tx_q,
                 rx_q, worker, irq, gpio, pc, exit_to, init_ret, handed,
                 delivered, nxfer, discarded, nwork, nsubmit, nlife>>

\* ------------------------------------------------------------- read_packet
\* A read_packet that returns the newest buffer instead of the oldest.
read_packet_ret_Newest(adapter) ==
  IF ~adapter \/ ~if_context \/ esp_spi_dev = "null" \/ rx_q = <<>> THEN NoRx
  ELSE rx_q[Len(rx_q)]

\* The buffer read_packet returns (NoRx stands for NULL).
read_packet_ret(adapter) ==
  IF ~adapter \/ ~if_context \/ esp_spi_dev = "null" THEN NoRx
  ELSE skb_dequeue_skb(rx_q, NoRx)

read_packet(adapter) ==
  /\ fault = "none"
  /\ IF ~adapter \/ ~if_context \/ esp_spi_dev = "null"
       THEN UNCHANGED rx_q
       ELSE rx_q' = skb_dequeue_rest(rx_q)
  /\ delivered' = IF read_packet_ret(adapter) = NoRx THEN delivered
                  ELSE Append(delivered, read_packet_ret(adapter))
  /\ UNCHANGED <<spi_workqueue, esp_spi_dev, ctx_adapter, if_context, q_init, tx_q,
                 work_pending, worker, irq, gpio, pc, exit_to, init_ret, fault,
                 handed, nxfer, discarded, nwork, nsubmit, nedges, nlife>>

\* ------------------------------------------------------------ write_packet
\* Padding that leaves an aligned size alone.
PaddedSize_RoundUp(size) == size + ((PadUnit - (size % PadUnit)) % PadUnit)

\* "size += 4 - (size & 3)".  size is a u32 that passed "size > SPI_BUF_SIZE",
\* so the sum cannot wrap.
PaddedSize(size) == size + (PadUnit - (size % PadUnit))

\* The argument check of write_packet.
WriteArgsOk(adapter, buf, size) ==
  adapter /\ if_context /\ buf /\ size # 0 /\ ~(size > SPI_BUF_SIZE)

\* The value write_packet returns.
write_packet_ret(adapter, buf, size, alloc_ok) ==
  IF ~WriteArgsOk(adapter, buf, size) THEN "EINVAL"
  ELSE IF ~alloc_ok THEN "ENOMEM"
  ELSE "0"

\* buf tells whether the pointer is non-NULL, mem is the caller's buffer it
\* points to.
write_packet(adapter, buf, mem, size, alloc_ok) ==
  /\ fault = "none"
  /\ nsubmit < MaxSubmit
  /\ IF write_packet_ret(adapter, buf, size, alloc_ok) # "0"
       THEN UNCHANGED <<tx_q, fault, nsubmit>>
       ELSE IF ~q_init
       THEN \* skb_queue_tail on a zeroed list head writes through NULL
            /\ fault' = "oops_write_packet"
            /\ UNCHANGED <<tx_q, nsubmit>>
       ELSE \* id and size are bookkeeping: which call queued the buffer, and
            \* the size that call passed; len is skb->len, data the bytes
            \* memcpy stored
            /\ nsubmit' = nsubmit + 1
            /\ tx_q' = skb_queue_tail(tx_q, [id |-> nsubmit + 1, size |-> size,
                                                len |-> PaddedSize(size),
                                                data |-> memcpy(mem, PaddedSize(size))])
            /\ UNCHANGED fault
  /\ UNCHANGED <<spi_workqueue, esp_spi_dev, ctx_adapter, if_context, q_init, rx_q,
                 work_pending, worker, irq, gpio, pc, exit_to, init_ret, handed,
                 delivered, nxfer, discarded, nwork, nedges, nlife>>

\* ---------------------------------------------------------- process_rx_buf
U16(x) == x % U16Mod

\* "len += sizeof(struct esp_payload_header)" on a u16.
RxTotal(skb) == U16(skb.hlen + HeaderSize)

\* Header checks without the "if (!len)" test.
RxValid_NoLenCheck(skb) ==
  /\ ~(U16(skb.offset) # HeaderSize)
  /\ ~(RxTotal(skb) > SPI_BUF_SIZE)

\* The header checks of process_rx_buf: TRUE when it returns 0.
RxValid(skb) ==
  /\ ~(U16(skb.offset) # HeaderSize)
  /\ skb.hlen # 0
  /\ ~(RxTotal(skb) > SPI_BUF_SIZE)

\* ------------------------------------------------------------ esp_spi_work
\* What spi_sync_transfer returns: 0, or an error (-EIO stands for any).
XferRets == {0, -5}

\* A work item that any free worker may start while another runs it.
WorkRunnable_Reentrant == work_pending > 0

\* The work item is not re-entrant: a queued instance starts only when no
\* worker is inside esp_spi_work.
WorkRunnable ==
  /\ work_pending > 0
  /\ \A d \in Cpus : worker[d].pc = "idle"

\* From the activation to the call of spi_sync_transfer.
WorkBegin(c, alloc_ok, ub) ==
  /\ fault = "none"
  /\ spi_workqueue \in {"live", "draining", "destroyed"}
  /\ WorkRunnable
  /\ work_pending' = work_pending - 1
  /\ nwork' = nwork + 1
  /\ tx_q' = skb_dequeue_rest(tx_q)
  /\ IF ~alloc_ok
       THEN \* skb_put on the NULL esp_alloc_skb returned
            /\ fault' = "oops_rx_alloc"
            /\ UNCHANGED <<worker, handed>>
       ELSE IF esp_spi_dev = "null" \/ (esp_spi_dev = "freed" /\ ub = "oops")
       THEN /\ fault' = "oops_spi_sync"
            /\ UNCHANGED <<worker, handed>>
       ELSE LET tx_skb == skb_dequeue_skb(tx_q, NoTx) IN
            \* rx_skb.id is bookkeeping: the activation that allocated it
            /\ worker' = [worker EXCEPT ![c] =
                            [pc |-> "xfer",
                             tx_skb |-> tx_skb,
                             rx_skb |-> [id |-> nwork + 1, offset |-> 0, hlen |-> 0,
                                         len |-> SPI_BUF_SIZE, data |-> <<>>],
                             trans_len |-> SPI_BUF_SIZE,
                             ret |-> 0]]
            /\ handed' = IF tx_skb = NoTx THEN handed ELSE Append(handed, tx_skb.id)
            /\ UNCHANGED fault
  /\ UNCHANGED <<spi_workqueue, esp_spi_dev, ctx_adapter, if_context, q_init, rx_q,
                 irq, gpio, pc, exit_to, init_ret, delivered, nxfer, discarded,
                 nsubmit, nedges, nlife>>

\* spi_sync_transfer returns ret: the receive buffer holds the bytes wire the
\* peer sent, followed by zeros.  A ret other than 0 is logged and changes
\* nothing else.  offset and hlen are the header fields process_rx_buf reads
\* from the buffer with le16_to_cpu.
WorkXfer(c, ret, wire) ==
  /\ fault = "none"
  /\ worker[c].pc = "xfer"
  /\ ret \in XferRets
  /\ worker' = [worker EXCEPT ![c].pc = "process",
                              ![c].ret = ret,
                              ![c].rx_skb = [id |-> worker[c].rx_skb.id,
                                             offset |-> Le16(wire, 1),
                                             hlen |-> Le16(wire, 3),
                                             len |-> SPI_BUF_SIZE,
                                             data |-> Prefix(wire, worker[c].trans_len)]]
  /\ nxfer' = nxfer + 1
  /\ UNCHANGED <<spi_workqueue, esp_spi_dev, ctx_adapter, if_context, q_init, tx_q,
                 rx_q, work_pending, irq, gpio, pc, exit_to, init_ret, fault,
                 handed, delivered, discarded, nwork, nsubmit, nedges, nlife>>

\* process_rx_buf, then the two frees.
WorkEnd(c) ==
  /\ fault = "none"
  /\ worker[c].pc = "process"
  /\ IF RxValid(worker[c].rx_skb)
       THEN IF ~q_init
              THEN \* skb_queue_tail on a zeroed list head writes through NULL
                   /\ fault' = "oops_process_rx_buf"
                   /\ UNCHANGED <<rx_q, worker>>
              ELSE /\ rx_q' = skb_queue_tail(rx_q, skb_trim(worker[c].rx_skb,
                                                              RxTotal(worker[c].rx_skb)))
                   /\ worker' = [worker EXCEPT ![c] = IdleWorker]
                   /\ UNCHANGED fault
       ELSE /\ worker' = [worker EXCEPT ![c] = IdleWorker]
            /\ UNCHANGED <<rx_q, fault>>
  /\ UNCHANGED <<spi_workqueue, esp_spi_dev, ctx_adapter, if_context, q_init, tx_q,
                 work_pending, irq, gpio, pc, exit_to, init_ret, handed,
                 delivered, nxfer, discarded, nwork, nsubmit, nedges, nlife>>

\* -------------------------------------------------- esp_init_interface_layer
\* spi_init in program order.  Each position covers one acquisition and the
\* calls after it that touch nothing another thread can see:
\*   i_wq    create_workqueue, INIT_WORK, skb_queue_head_init x2, spi_busnum_to_master
\*   i_dev   spi_new_device, spi_setup
\*   i_gpio  gpio_request, gpio_direction_input
\*   i_irq   request_irq
\*   i_hooks esp_serial_init, esp_add_card, esp_init_bt
InitSteps == <<"i_wq", "i_dev", "i_gpio", "i_irq", "i_hooks">>

\* How a position can end: every call succeeds, or its first, second or third
\* call fails.
StepOutcomes(step) ==
  CASE step = "i_irq"   -> {"ok", "fail1"}
    [] step = "i_hooks" -> {"ok", "fail1", "fail2", "fail3"}
    [] OTHER            -> {"ok", "fail1", "fail2"}

\* The value spi_init returns when the call fails.
InitError(step, outcome) ==
  CASE step = "i_wq" /\ outcome = "fail1" -> "EFAULT"
    [] step = "i_wq" /\ outcome = "fail2" -> "ENODEV"
    [] step = "i_dev" /\ outcome = "fail1" -> "ENODEV"
    [] OTHER -> "status"

IsInitStep(step) == \E i \in 1..Len(InitSteps) : InitSteps[i] = step

NextInitStep(step) ==
  IF step = InitSteps[Len(InitSteps)] THEN "running"
  ELSE InitSteps[(CHOOSE i \in 1..Len(InitSteps) : InitSteps[i] = step) + 1]

\* esp_init_interface_layer up to the call of spi_init.
esp_init_interface_layer(adapter) ==
  /\ fault = "none"
  /\ pc \in {"uninit", "stopped"}
  /\ nlife < MaxLife
  /\ nlife' = nlife + 1
  /\ IF ~adapter
       THEN /\ init_ret' = "EINVAL"
            /\ UNCHANGED <<spi_workqueue, esp_spi_dev, ctx_adapter, if_context, q_init,
                           tx_q, rx_q, work_pending, discarded, pc>>
       ELSE \* memset(&spi_context, 0, ...), then the back references
            /\ spi_workqueue' = "null"
            /\ esp_spi_dev' = "null"
            /\ q_init' = FALSE
            /\ tx_q' = <<>>
            /\ rx_q' = <<>>
            /\ discarded' = discarded \cup {tx_q[i].id : i \in DOMAIN tx_q}
            /\ work_pending' = 0
            /\ if_context' = TRUE
            /\ ctx_adapter' = TRUE
            /\ init_ret' = "none"
            /\ pc' = InitSteps[1]
  /\ UNCHANGED <<worker, irq, gpio, exit_to, fault, handed, delivered, nxfer, nwork,
                 nsubmit, nedges>>

\* One position of spi_init.  What the first call acquires is acquired unless
\* that call itself fails; a failure calls spi_exit and fixes the return value.
spi_init(outcome) ==
  /\ fault = "none"
  /\ IsInitStep(pc)
  /\ outcome \in StepOutcomes(pc)
  /\ spi_workqueue' = IF pc = "i_wq" /\ outcome # "fail1" THEN "live" ELSE spi_workqueue
  /\ q_init' = IF pc = "i_wq" /\ outcome # "fail1" THEN TRUE ELSE q_init
  /\ esp_spi_dev' = IF pc = "i_dev" /\ outcome # "fail1" THEN "live" ELSE esp_spi_dev
  /\ gpio' = IF pc = "i_gpio" /\ outcome # "fail1" THEN TRUE ELSE gpio
  /\ irq' = IF pc = "i_irq" /\ outcome # "fail1" THEN TRUE ELSE irq
  /\ IF outcome = "ok"
       THEN /\ pc' = NextInitStep(pc)
            /\ init_ret' = IF NextInitStep(pc) = "running" THEN "0" ELSE init_ret
            /\ UNCHANGED exit_to
       ELSE /\ pc' = "x_wq"
            /\ exit_to' = "init"
            /\ init_ret' = InitError(pc, outcome)
  /\ UNCHANGED <<ctx_adapter, if_context, tx_q, rx_q, work_pending, worker,
                 fault, handed, delivered, nxfer, discarded, nwork, nsubmit, nedges,
                 nlife>>

\* ----------------------------------------------- esp_deinit_interface_layer
\* The function calls spi_exit whatever state the context is in: never
\* initialised, initialised, or zeroed by an earlier spi_exit.
esp_deinit_interface_layer ==
  /\ fault = "none"
  /\ pc \in {"uninit", "running", "stopped"}
  /\ nlife < MaxLife
  /\ nlife' = nlife + 1
  /\ pc' = "x_wq"
  /\ exit_to' = "deinit"
  /\ UNCHANGED <<spi_workqueue, esp_spi_dev, ctx_adapter, if_context, q_init, tx_q,
                 rx_q, work_pending, worker, irq, gpio, init_ret, fault,
                 handed, delivered, nxfer, discarded, nwork, nsubmit, nedges>>

\* ---------------------------------------------------------------- spi_exit
\* destroy_workqueue() is entered: from here the workqueue refuses new work.
ExitDestroyBegin ==
  /\ fault = "none"
  /\ pc = "x_wq"
  /\ IF spi_workqueue = "null"
       THEN /\ pc' = "x_release"
            /\ UNCHANGED spi_workqueue
       ELSE /\ pc' = "x_drain"
            /\ spi_workqueue' = "draining"
  /\ UNCHANGED <<esp_spi_dev, ctx_adapter, if_context, q_init, tx_q, rx_q,
                 work_pending, worker, irq, gpio, exit_to, init_ret, fault,
                 handed, delivered, nxfer, discarded, nwork, nsubmit, nedges, nlife>>

\* destroy_workqueue() returns: queued and running work has ended and the
\* workqueue is freed; spi_context.spi_workqueue still points to it.
ExitDestroyEnd ==
  /\ fault = "none"
  /\ pc = "x_drain"
  /\ work_pending = 0
  /\ \A c \in Cpus : worker[c].pc = "idle"
  /\ spi_workqueue' = "destroyed"
  /\ pc' = "x_release"
  /\ UNCHANGED <<esp_spi_dev, ctx_adapter, if_context, q_init, tx_q, rx_q,
                 work_pending, worker, irq, gpio, exit_to, init_ret, fault,
                 handed, delivered, nxfer, discarded, nwork, nsubmit, nedges, nlife>>

\* esp_serial_cleanup, esp_remove_card, the read of spi_context.adapter->hcidev,
\* gpio_free, spi_unregister_device.  The device is gone after it, and the
\* pointer to it stays in the context until memset.
ExitRelease ==
  /\ fault = "none"
  /\ pc = "x_release"
  /\ IF ctx_adapter
       THEN /\ gpio' = FALSE
            /\ esp_spi_dev' = IF esp_spi_dev = "null" THEN "null" ELSE "freed"
            /\ pc' = "x_memset"
            /\ UNCHANGED fault
       ELSE /\ fault' = "oops_spi_exit"
            /\ UNCHANGED <<gpio, esp_spi_dev, pc>>
  /\ UNCHANGED <<spi_workqueue, ctx_adapter, if_context, q_init, tx_q, rx_q,
                 work_pending, worker, irq, exit_to, init_ret, handed, delivered, nxfer,
                 discarded, nwork, nsubmit, nedges, nlife>>

\* memset(&spi_context, 0, sizeof(spi_context)): every field is zero; buffers
\* still on the two lists are neither freed nor referenced any more.
ExitMemset ==
  /\ fault = "none"
  /\ pc = "x_memset"
  /\ spi_workqueue' = "null"
  /\ esp_spi_dev' = "null"
  /\ ctx_adapter' = FALSE
  /\ q_init' = FALSE
  /\ tx_q' = <<>>
  /\ rx_q' = <<>>
  /\ discarded' = discarded \cup {tx_q[i].id : i \in DOMAIN tx_q}
  /\ work_pending' = 0
  /\ pc' = IF exit_to = "init" THEN "uninit" ELSE "stopped"
  /\ exit_to' = "none"
  /\ UNCHANGED <<if_context, worker, irq, gpio, init_ret, fault, handed, delivered,
                 nxfer, nwork, nsubmit, nedges, nlife>>

\* ---------------------------------------------------------- specification
InitOutcomes == {"ok", "fail1", "fail2", "fail3"}

\* The calls of write_packet in the transport specification: the call whose
\* arguments are all good and whose allocation succeeds, and the calls in which
\* exactly one of them is bad (a rejected call changes nothing, whatever else
\* is bad in it).
WriteCalls ==
  {w \in [adapter : BOOLEAN, buf : BOOLEAN, size : SubmitSizes, alloc_ok : BOOLEAN] :
     Cardinality({x \in {"adapter", "buf", "alloc_ok"} : ~w[x]}
                 \cup (IF w.size = 0 THEN {"size"} ELSE {})) <= 1}

Next ==
  \/ \E ub \in UbQueueOutcomes : spi_interrupt_handler(ub)
  \/ \E adapter \in BOOLEAN : read_packet(adapter)
  \/ \E w \in WriteCalls :
        write_packet(w.adapter, w.buf, CallerBytes(w.size), w.size, w.alloc_ok)
  \/ \E c \in Cpus, alloc_ok \in BOOLEAN, ub \in UbQueueOutcomes : WorkBegin(c, alloc_ok, ub)
  \/ \E c \in Cpus, ret \in XferRets, offset \in PeerOffsets, hlen \in PeerLens :
        WorkXfer(c, ret, PeerWire(offset, hlen))
  \/ \E c \in Cpus : WorkEnd(c)
  \/ \E adapter \in BOOLEAN : esp_init_interface_layer(adapter)
  \/ \E outcome \in InitOutcomes : spi_init(outcome)
  \/ esp_deinit_interface_layer
  \/ ExitDestroyBegin
  \/ ExitDestroyEnd
  \/ ExitRelease
  \/ ExitMemset

Spec == Init /\ [][Next]_vars

\* ------------------------------------------- specification of the frame codec
\* One write_packet call and one exchange on a running transport, with the
\* caller's size and the peer's header drawn from their whole ranges.
CodecSizes   == 0..(SPI_BUF_SIZE + PadUnit)
CodecOffsets == {0, HeaderSize, 6}
CodecLens    == 0..(U16Mod - 1)

RunningContext ==
  /\ spi_workqueue = "live"
  /\ esp_spi_dev = "live"
  /\ ctx_adapter = TRUE
  /\ if_context = TRUE
  /\ q_init = TRUE
  /\ irq = TRUE
  /\ gpio = TRUE
  /\ pc = "running"
  /\ exit_to = "none"
  /\ init_ret = "0"
  /\ fault = "none"
  /\ discarded = {}
  /\ tx_q = <<>>
  /\ rx_q = <<>>
  /\ delivered = <<>>
  /\ work_pending = 0
  /\ nlife = MaxLife

\* Either one more buffer can be queued, or an exchange is under way.
CodecInit ==
  /\ RunningContext
  /\ nedges = MaxEdges
  /\ \/ /\ nsubmit = MaxSubmit - 1
        /\ nwork = MaxSubmit - 1
        /\ nxfer = MaxSubmit - 1
        /\ handed = [i \in 1..(MaxSubmit - 1) |-> i]
        /\ worker = [c \in Cpus |-> IdleWorker]
     \/ /\ nsubmit = MaxSubmit
        /\ nwork = MaxSubmit + 1
        /\ nxfer = MaxSubmit
        /\ handed = [i \in 1..MaxSubmit |-> i]
        /\ worker = [c \in Cpus |->
                       IF c = 1
                         THEN [pc |-> "xfer", tx_skb |-> NoTx,
                               rx_skb |-> [id |-> MaxSubmit + 1, offset |-> 0, hlen |-> 0,
                                           len |-> SPI_BUF_SIZE, data |-> <<>>],
                               trans_len |-> SPI_BUF_SIZE, ret |-> 0]
                         ELSE IdleWorker]

CodecNext ==
  \/ /\ nsubmit < MaxSubmit
     /\ \E adapter \in BOOLEAN, buf \in BOOLEAN, size \in CodecSizes, alloc_ok \in BOOLEAN :
           write_packet(adapter, buf, CallerBytes(size), size, alloc_ok)
  \/ \E c \in Cpus :
        /\ worker[c].pc = "xfer"
        /\ \E ret \in XferRets, offset \in CodecOffsets, hlen \in CodecLens :
              WorkXfer(c, ret, Le16Bytes(offset) \o Le16Bytes(hlen))
  \/ \E c \in Cpus : WorkEnd(c)
  \/ \E adapter \in BOOLEAN : read_packet(adapter)

CodecSpec == CodecInit /\ [][CodecNext]_vars

\* ------------------------------------- specification of the running transport
\* The transport after a successful esp_init_interface_layer, with no init or
\* exit in progress.
ExchangeInit ==
  /\ spi_workqueue = "live"
  /\ esp_spi_dev = "live"
  /\ ctx_adapter = TRUE
  /\ if_context = TRUE
  /\ q_init = TRUE
  /\ irq = TRUE
  /\ gpio = TRUE
  /\ pc = "running"
  /\ exit_to = "none"
  /\ init_ret = "0"
  /\ fault = "none"
  /\ tx_q = <<>>
  /\ rx_q = <<>>
  /\ work_pending = 0
  /\ worker = [c \in Cpus |-> IdleWorker]
  /\ handed = <<>>
  /\ delivered = <<>>
  /\ discarded = {}
  /\ nxfer = 0
  /\ nwork = 0
  /\ nsubmit = 0
  /\ nedges = 0
  /\ nlife = 1

ExchangeNext ==
  \/ \E w \in WriteCalls :
        write_packet(w.adapter, w.buf, CallerBytes(w.size), w.size, w.alloc_ok)
  \/ \E ub \in UbQueueOutcomes : spi_interrupt_handler(ub)
  \/ \E c \in Cpus, alloc_ok \in BOOLEAN, ub \in UbQueueOutcomes : WorkBegin(c, alloc_ok, ub)
  \/ \E c \in Cpus, ret \in XferRets, offset \in PeerOffsets, hlen \in PeerLens :
        WorkXfer(c, ret, PeerWire(offset, hlen))
  \/ \E c \in Cpus : WorkEnd(c)
  \/ \E adapter \in BOOLEAN : read_packet(adapter)

ExchangeSpec == ExchangeInit /\ [][ExchangeNext]_vars

\* The running transport with a fair workqueue: a work item that is queued
\* while no worker runs it is started, spi_sync_transfer returns, and
\* esp_spi_work runs to its end.
FairExchangeSpec ==
  /\ ExchangeSpec
  /\ WF_vars(\E c \in Cpus, alloc_ok \in BOOLEAN, ub \in UbQueueOutcomes :
                WorkBegin(c, alloc_ok, ub))
  /\ WF_vars(\E c \in Cpus, ret \in XferRets, offset \in PeerOffsets, hlen \in PeerLens :
                WorkXfer(c, ret, PeerWire(offset, hlen)))
  /\ WF_vars(\E c \in Cpus : WorkEnd(c))

\* ----------------------------------------- specification of the round trip
\* One buffer goes through write_packet and one exchange in which the peer
\* sends back the bytes it received; process_rx_buf then decodes them.

\* A buffer that starts with a struct esp_payload_header: offset = header
\* size, len = payload length, both little-endian, then the payload.
Framed(payload) == Le16Bytes(HeaderSize) \o Le16Bytes(Len(payload)) \o payload

\* Payload lengths of the framed buffers: every length write_packet accepts
\* behind a header.
FramedLens == 1..(SPI_BUF_SIZE - HeaderSize)

\* Lengths of the bare payloads, passed without a header.
BareLens == {1, 3, 8}

\* The payload bytes 17, 18, 19, ...
PayloadBytes(n) == [i \in 1..n |-> (16 + i) % 256]

RoundTripBufs ==
  {Framed(PayloadBytes(n)) : n \in FramedLens} \cup {PayloadBytes(n) : n \in BareLens}

\* The n bytes the bus clocks out of a transmit buffer: its bytes, then
\* whatever follows the buffer in memory when n exceeds its length.  Without
\* a transmit buffer (tx_buf = NULL) the bus sends zeros.
BusRead(skb, n) == IF skb = NoTx THEN <<>> ELSE memcpy(skb.data, n)

\* Room for one more buffer and one more handshake edge.
RoundTripInit ==
  /\ RunningContext
  /\ nedges = MaxEdges - 1
  /\ nsubmit = MaxSubmit - 1
  /\ nwork = MaxSubmit - 1
  /\ nxfer = MaxSubmit - 1
  /\ handed = [i \in 1..(MaxSubmit - 1) |-> i]
  /\ worker = [c \in Cpus |-> IdleWorker]

RoundTripNext ==
  \/ /\ nsubmit < MaxSubmit
     /\ \E mem \in RoundTripBufs : write_packet(TRUE, TRUE, mem, Len(mem), TRUE)
  \/ \E ub \in UbQueueOutcomes : spi_interrupt_handler(ub)
  \/ \E c \in Cpus, alloc_ok \in BOOLEAN, ub \in UbQueueOutcomes : WorkBegin(c, alloc_ok, ub)
  \/ \E c \in Cpus, ret \in XferRets :
        /\ worker[c].pc = "xfer"
        /\ WorkXfer(c, ret, BusRead(worker[c].tx_skb, worker[c].trans_len))
  \/ \E c \in Cpus : WorkEnd(c)
  \/ \E adapter \in BOOLEAN : read_packet(adapter)

RoundTripSpec == RoundTripInit /\ [][RoundTripNext]_vars

\* ==================================================================== claims
TxIds      == {tx_q[i].id : i \in DOMAIN tx_q}
HandedIds  == {handed[i] : i \in DOMAIN handed}
Busy       == {c \in Cpus : worker[c].pc # "idle"}
Exchanging == {c \in Cpus : worker[c].pc = "xfer"}

\* C1: in every reachable state at most one worker is inside esp_spi_work, so
\* at most one spi_sync_transfer is in progress.
C1_OneExchange ==
  /\ Cardinality(Exchanging) <= 1
  /\ Cardinality(Busy) <= 1

\* C1 witness: an exchange is in progress on a running transport while a
\* further activation, queued by an edge, waits for it to end.
C1_Witness ==
  /\ pc = "running"
  /\ Cardinality(Exchanging) = 1
  /\ work_pending = 1

C3_Fifo ==
  /\ \A i, j \in DOMAIN handed : i < j => handed[i] < handed[j]
  /\ \A k \in DOMAIN handed :
        handed[k] = k + Cardinality({d \in discarded : d < handed[k]})

\* C3 witness: two buffers were on tx_q together and both have been handed over.
C3_Witness ==
  /\ handed = <<1, 2>>
  /\ nwork = 2
  /\ discarded = {}

\* C4: every buffer on rx_q has header offset 4 and a nonzero length field;
\* when esp_spi_work ends with a buffer that fails either test, rx_q is
\* unchanged and the worker holds the buffer no longer.
C4_RxQueueValidated ==
  /\ [](\A i \in DOMAIN rx_q : rx_q[i].offset = HeaderSize /\ rx_q[i].hlen # 0)
  /\ [][\A c \in Cpus :
          (/\ worker[c].pc = "process"
           /\ worker'[c].pc = "idle"
           /\ (worker[c].rx_skb.offset # HeaderSize \/ worker[c].rx_skb.hlen = 0))
          => (rx_q' = rx_q /\ worker'[c].rx_skb = NoRx)]_vars

\* C4 witness: a buffer that passed the checks is on rx_q.
C4_Witness ==
  /\ Len(rx_q) = 1
  /\ rx_q[1].offset = HeaderSize
  /\ rx_q[1].hlen = 5

\* C5: no buffer on rx_q declares a total, header size plus length field,
\* above SPI_BUF_SIZE.
C5_OversizeRejected ==
  \A i \in DOMAIN rx_q : HeaderSize + rx_q[i].hlen <= SPI_BUF_SIZE

\* C6: a buffer on rx_q with length field L is exactly header size + L bytes long.
C6_TrimmedToDeclared ==
  \A i \in DOMAIN rx_q : rx_q[i].len = HeaderSize + rx_q[i].hlen

\* C7: a buffer write_packet queued for a size S is longer than S by 1 to 4
\* bytes and its length is a multiple of 4; for S a multiple of 4 it is S + 4.
C7_PaddingLaw ==
  \A i \in DOMAIN tx_q :
    /\ tx_q[i].len % PadUnit = 0
    /\ tx_q[i].len - tx_q[i].size >= 1
    /\ tx_q[i].len - tx_q[i].size <= PadUnit
    /\ (tx_q[i].size % PadUnit = 0 => tx_q[i].len = tx_q[i].size + PadUnit)

\* C7 witness: a buffer queued for a size that is a multiple of 4.
C7_Witness ==
  /\ Len(tx_q) = 1
  /\ tx_q[1].size = 8
  /\ tx_q[1].len = 12

\* C8: no buffer on tx_q is larger than SPI_BUF_SIZE, and every one was queued
\* for a size above 0.
C8_TxWithinMax ==
  \A i \in DOMAIN tx_q : tx_q[i].size > 0 /\ tx_q[i].len <= SPI_BUF_SIZE

\* C9: at most one activation is pending at any time; an edge that finds the
\* workqueue live leaves exactly one pending; and while the workqueue exists a
\* pending activation goes away only by being started.
C9_Coalescing ==
  /\ [](work_pending <= 1)
  /\ [][(nedges' = nedges + 1 /\ spi_workqueue = "live") => work_pending' = 1]_vars
  /\ [][(spi_workqueue \in {"live", "draining"} /\ work_pending' < work_pending)
          => nwork' = nwork + 1]_vars

\* C9 witness: the first activation is still in its exchange, two more edges
\* have arrived since it started, and one activation is pending.
C9_Witness ==
  /\ pc = "running"
  /\ nwork = 1
  /\ nedges = 3
  /\ Cardinality(Exchanging) = 1
  /\ work_pending = 1

\* C10: once destroy_workqueue has returned, nothing is queued and no worker
\* is inside esp_spi_work, whatever edges arrive; and after teardown both
\* queues are empty.
C10_TeardownSafe ==
  /\ (pc \in {"x_release", "x_memset", "stopped"}
        => (work_pending = 0 /\ Busy = {}))
  /\ (pc = "stopped" => (tx_q = <<>> /\ rx_q = <<>>))

\* C11: spi_exit on a context that an earlier spi_exit already zeroed ends
\* without a kernel fault.  (init_ret holds an error code exactly when a
\* failed spi_init has run spi_exit; the read of spi_context.adapter->hcidev
\* through the zeroed adapter pointer is the fault "oops_spi_exit".)
C11_TeardownIdempotent ==
  ~(/\ fault = "oops_spi_exit"
    /\ init_ret \notin {"none", "EINVAL", "0"})

\* The error codes a failed spi_init returns ("status" stands for the value
\* the failed kernel call returned).
InitErrors == {"EFAULT", "ENODEV", "status"}

\* Every field of spi_context is zero.
ContextZeroed ==
  /\ spi_workqueue = "null"
  /\ esp_spi_dev = "null"
  /\ ctx_adapter = FALSE
  /\ q_init = FALSE
  /\ tx_q = <<>>
  /\ rx_q = <<>>
  /\ work_pending = 0

\* C12: esp_init_interface_layer with a NULL adapter returns -EINVAL and
\* leaves the context as it was; and when a step of spi_init has failed and
\* esp_init_interface_layer has returned its error, the context is zeroed and
\* not running, and everything the steps before it acquired (handshake pin,
\* interrupt registration) is released.
C12_FailedInitRollsBack ==
  /\ (init_ret = "EINVAL" => (~ctx_adapter /\ spi_workqueue = "null" /\ pc # "running"))
  /\ ((pc = "uninit" /\ init_ret \in InitErrors /\ fault = "none")
        => (ContextZeroed /\ ~gpio /\ ~irq))

\* The ids of the buffers read_packet returned, then of those still on rx_q.
ArrivalIds ==
  [i \in 1..Len(delivered) |-> delivered[i].id] \o [i \in 1..Len(rx_q) |-> rx_q[i].id]

StrictlyIncreasing(seq) == \A i, j \in DOMAIN seq : i < j => seq[i] < seq[j]

\* What process_rx_buf puts on rx_q for a buffer it accepts.
Decoded(skb) == skb_trim(skb, RxTotal(skb))

\* Worker c ends esp_spi_work in this step.
WorkEnds(c) == worker[c].pc = "process" /\ worker'[c].pc = "idle"

\* C13: on the running transport every buffer process_rx_buf accepts goes to
\* the tail of rx_q; a buffer leaves rx_q only from its head and only as the
\* value of a read_packet call; the buffers read_packet returned, followed by
\* those still queued, are in order of arrival with none twice; and
\* read_packet on an empty rx_q returns nothing and changes nothing.
C13_EndToEndDelivery ==
  /\ [](StrictlyIncreasing(ArrivalIds))
  /\ [](\A i \in DOMAIN delivered : RxValid(delivered[i]))
  /\ [](rx_q = <<>> => read_packet_ret(TRUE) = NoRx)
  /\ [][\A c \in Cpus :
          (WorkEnds(c) /\ RxValid(worker[c].rx_skb))
          => rx_q' = Append(rx_q, Decoded(worker[c].rx_skb))]_vars
  /\ [][(rx_q' # rx_q /\ Len(rx_q') <= Len(rx_q))
          => (/\ rx_q # <<>>
              /\ rx_q' = Tail(rx_q)
              /\ delivered' = Append(delivered, Head(rx_q)))]_vars
  /\ [][delivered' # delivered
          => (/\ rx_q # <<>>
              /\ rx_q' = Tail(rx_q)
              /\ delivered' = Append(delivered, Head(rx_q)))]_vars

\* C13 witness: one buffer of 3 bytes was queued, one edge came, the exchange
\* brought a frame with length field 5 and payload 0xAA..0xAE, read_packet
\* returned it, and rx_q is empty again.
C13_Witness ==
  /\ nsubmit = 1
  /\ nedges = 1
  /\ handed = <<1>>
  /\ rx_q = <<>>
  /\ delivered = <<[id |-> 1, offset |-> HeaderSize, hlen |-> 5, len |-> 9,
                    data |-> <<4, 0, 5, 0, 170, 171, 172, 173, 174>>]>>

\* The caller's buffer behind a transmit buffer is a frame: a header with
\* offset = header size and len = the number of bytes after the header.
IsFrame(tx) ==
  /\ tx.size > HeaderSize
  /\ SubSeq(tx.data, 1, tx.size) = Framed(SubSeq(tx.data, HeaderSize + 1, tx.size))

C16_FailedExchangeNonFatal ==
  [][\A c \in Cpus :
       (WorkEnds(c) /\ worker[c].ret # 0)
       => (/\ rx_q' = IF RxValid(worker[c].rx_skb)
                         THEN Append(rx_q, Decoded(worker[c].rx_skb))
                         ELSE rx_q
           /\ worker'[c] = IdleWorker
           /\ tx_q' = tx_q
           /\ fault' = "none"
           /\ spi_workqueue' = spi_workqueue
           /\ work_pending' = work_pending
           /\ esp_spi_dev' = esp_spi_dev)]_vars

\* C16 witness: the second exchange carried a buffer and failed, its receive
\* buffer holds a frame that passes the checks, and a later edge has already
\* queued the next activation.
C16_Witness ==
  /\ fault = "none"
  /\ nxfer = 2
  /\ Len(rx_q) = 1
  /\ \E c \in Cpus :
        /\ worker[c].pc = "process"
        /\ worker[c].ret # 0
        /\ worker[c].tx_skb # NoTx
        /\ RxValid(worker[c].rx_skb)
  /\ work_pending = 1

\* C17: after esp_deinit_interface_layer on an initialised transport has
\* returned, the device is unregistered, the handshake pin is free and no
\* interrupt registration for spi_interrupt_handler remains.
C17_ResourcesReleased ==
  (pc = "stopped" /\ init_ret = "0" /\ fault = "none")
    => (esp_spi_dev = "null" /\ ~gpio /\ ~irq)

\* C18: in an exchange that carries a buffer from tx_q, trans.len is not more
\* than the length of that buffer.
C18_TransferWithinTxBuffer ==
  \A c \in Exchanging :
    worker[c].tx_skb # NoTx => worker[c].trans_len <= worker[c].tx_skb.len

\* C19: no byte of a buffer on tx_q was read from behind the caller's buffer.
C19_CopyWithinCallerBuffer ==
  \A i \in DOMAIN tx_q :
    \A k \in DOMAIN tx_q[i].data : tx_q[i].data[k] # Beyond

====
